---- MODULE Spec2Model ----
(***************************************************************************)
(* A model of src/image_processor.py: BatchImageProcessor walks an input   *)
(* tree, selects image files by extension and, for each, decodes it,       *)
(* optionally strips the background, shrinks it to fit target_size,        *)
(* pastes it centred on a bg_color canvas and saves it as PNG at the       *)
(* mirrored path under the output root.                                    *)
(*                                                                         *)
(* Two specifications share the module:                                    *)
(*   Spec      the batch run (process_directory and the steps of           *)
(*             _process_single_image) over a small input tree;             *)
(*   GeomSpec  the in-memory compositing of one image (thumbnail, canvas,  *)
(*             paste, convert) at pixel level, over all small sizes.       *)
(***************************************************************************)
EXTENDS Integers, Sequences, FiniteSets, TLC

VARIABLES
    \* ---- the batch run ----
    inputExists,   \* whether input_path.exists()
    tree,          \* the entries under the input root (ids of Candidates)
    useAi,         \* use_ai_bg_removal of the current call
    pc,            \* position of the current call
    pending,       \* entries rglob has not yielded yet
    cur,           \* the entry _process_single_image is working on (0: none)
    img,           \* the in-memory image of the current file
    created,       \* Image.save: whether the destination did not exist before
    outDirs,       \* directories that exist under (and including) the output root
    outFiles,      \* the files under the output root: path -> file or NoFile
    called,        \* entries passed to _process_single_image in this call
    opened,        \* entries handed to Image.open in this call
    okFiles,       \* entries with an info line ("처리 완료") in this call
    errFiles,      \* entries with an error line ("이미지 처리 실패") in this call
    errCount,      \* number of error lines logged in this call
    prevOut,       \* outFiles when the current call started
    prevClean,     \* whether there was a previous call and it logged no error
    prevAi,        \* use_ai_bg_removal of the previous call
    \* ---- the compositing of one image, at pixel level ----
    gpc,           \* position in the compositing steps
    gTarget,       \* self.target_size
    gBg,           \* self.bg_color
    gSrc,          \* size of the decoded image
    gPix,          \* the (uniform) RGBA pixel value of the decoded image
    gImg,          \* size of img after thumbnail
    gCanvas,       \* new_img: pixel -> colour tuple
    gBox           \* where paste put img: <<paste_x, paste_y, width, height>>

batchVars == <<inputExists, tree, useAi, pc, pending, cur, img, created,
               outDirs, outFiles, called, opened, okFiles, errFiles, errCount,
               prevOut, prevClean, prevAi>>
geomVars == <<gpc, gTarget, gBg, gSrc, gPix, gImg, gCanvas, gBox>>
vars == <<batchVars, geomVars>>

\* ---------------------------------------------------------------- bounds
\* Largest number of entries under the input root.
MaxEntries == 2
\* Largest width or height of a source image or of the target box in GeomSpec.
MaxDim == 4

\* ------------------------------------------------------- program constants
\* __init__'s default target_size=(1024, 1024).
DefaultTargetW == 1024
DefaultTargetH == 1024
\* An opaque alpha value, the 255 of bg_color + (255,).
Opaque == 255

\* --------------------------------------------------------------- strings
\* A string is a sequence of one-character strings, so that lower(), suffix
\* and with_suffix are computed and not assumed.
UpperChars == <<"A","B","C","D","E","F","G","H","I","J","K","L","M",
                "N","O","P","Q","R","S","T","U","V","W","X","Y","Z">>
LowerChars == <<"a","b","c","d","e","f","g","h","i","j","k","l","m",
                "n","o","p","q","r","s","t","u","v","w","x","y","z">>

LowerChar(c) ==
    IF \E i \in 1..Len(UpperChars) : UpperChars[i] = c
    THEN LowerChars[CHOOSE i \in 1..Len(UpperChars) : UpperChars[i] = c]
    ELSE c

\* str.lower()
Lower(s) == [i \in 1..Len(s) |-> LowerChar(s[i])]

\* str.rfind('.'), 1-based; 0 when there is no dot.
RFindDot(s) ==
    IF \E i \in 1..Len(s) : s[i] = "."
    THEN CHOOSE i \in 1..Len(s) : s[i] = "." /\ \A j \in (i+1)..Len(s) : s[j] # "."
    ELSE 0

\* PurePath.suffix: the part from the last dot on, unless that dot starts or
\* ends the name.
Suffix(name) ==
    LET i == RFindDot(name)
    IN  IF 1 < i /\ i < Len(name) THEN SubSeq(name, i, Len(name)) ELSE <<>>

\* PurePath.stem
Stem(name) ==
    LET i == RFindDot(name)
    IN  IF 1 < i /\ i < Len(name) THEN SubSeq(name, 1, i - 1) ELSE name

\* PurePath.with_suffix(suffix), on the name
WithSuffix(name, suffix) == Stem(name) \o suffix

PngSuffix == <<".", "p", "n", "g">>

\* self.valid_extensions
valid_extensions ==
    { <<".", "p", "n", "g">>, <<".", "j", "p", "g">>,
      <<".", "j", "p", "e", "g">>, <<".", "w", "e", "b", "p">> }

\* ------------------------------------------------- big-number-free geometry
Abs(n) == IF n < 0 THEN -n ELSE n
Max(a, b) == IF a >= b THEN a ELSE b
Floor(num, den) == num \div den
Ceil(num, den) == -((-num) \div den)

\* ------------------------------------------------------------- thumbnail
\* Image.thumbnail's round_aspect(number, key) is
\*     max(min(floor(number), ceil(number), key=key), 1).
\* The code computes the keys in floating point.  Here they are compared
\* exactly (cross-multiplied), and where the two keys are exactly equal the
\* rounding error of the floating-point keys decides: both outcomes are kept.

\* round_aspect for the width: number = y * aspect, aspect = w / h,
\* key(n) = |aspect - n / y|.  The set of values it can return.
RoundAspectWidth(y, w, h) ==
    LET f == Floor(y * w, h)
        c == Ceil(y * w, h)
        key(n) == Abs(w * y - n * h)
    IN  { Max(n, 1) : n \in { m \in {f, c} : key(m) <= key(f) /\ key(m) <= key(c) } }

\* round_aspect for the height: number = x / aspect,
\* key(n) = 0 if n == 0 else |aspect - x / n|.
RoundAspectHeight(x, w, h) ==
    LET f == Floor(x * h, w)
        c == Ceil(x * h, w)
        \* the keys of f and c, both multiplied by h * f * c
        kf == Abs(w * f - x * h) * c
        kc == Abs(w * c - x * h) * f
    IN  IF f = 0 THEN {1}
        ELSE { Max(n, 1) : n \in { m \in {f, c} : IF m = f THEN kf <= kc ELSE kc <= kf } }

\* A resize that always scales to touch the box, enlarging small images.
ThumbnailSizesFitExactly(size, target) ==
    LET w == size[1]  h == size[2]  x == target[1]  y == target[2]
    IN  IF x * h >= w * y THEN { <<n, y>> : n \in RoundAspectWidth(y, w, h) }
                          ELSE { <<x, n>> : n \in RoundAspectHeight(x, w, h) }

\* img.thumbnail(self.target_size, LANCZOS): the sizes img can have
\* afterwards.  Unchanged when the box already holds the image, else the box
\* with one side recomputed from the aspect ratio.
ThumbnailSizes(size, target) ==
    LET w == size[1]  h == size[2]  x == target[1]  y == target[2]
    IN  IF x >= w /\ y >= h THEN {size}
        ELSE IF x * h >= w * y THEN { <<n, y>> : n \in RoundAspectWidth(y, w, h) }
                               ELSE { <<x, n>> : n \in RoundAspectHeight(x, w, h) }

\* An offset that rounds the half up instead of down.
PasteOffsetRoundUp(canvasDim, imgDim) == (canvasDim - imgDim + 1) \div 2

\* paste_x = (self.target_size[0] - img.width) // 2, and the same for y.
PasteOffset(canvasDim, imgDim) == (canvasDim - imgDim) \div 2

\* ---------------------------------------------------------------- pixels
PixelsOf(size) == (0..(size[1] - 1)) \X (0..(size[2] - 1))

\* A canvas left at Image.new's default colour, 0 in every band.
NewCanvasDefaultColour(size, bg) == [p \in PixelsOf(size) |-> <<0, 0, 0, 0>>]

\* Image.new("RGBA", self.target_size, self.bg_color + (255,))
NewCanvas(size, bg) == [p \in PixelsOf(size) |-> Append(bg, Opaque)]

\* One band of a masked paste: the destination d and the source s mixed by
\* the mask value m, divided by 255 with rounding.
Blend(d, s, m) ==
    LET t == d * (255 - m) + s * m + 128
    IN  ((t \div 256) + t) \div 256

InBox(p, box) ==
    /\ box[1] <= p[1] /\ p[1] < box[1] + box[3]
    /\ box[2] <= p[2] /\ p[2] < box[2] + box[4]

\* new_img.paste(img, (paste_x, paste_y), img): inside the box every band is
\* blended under img's own alpha; the rest of the canvas is left alone.
Paste(canvas, pix, box) ==
    [p \in DOMAIN canvas |->
        IF InBox(p, box)
        THEN [b \in 1..4 |-> Blend(canvas[p][b], pix[b], pix[4])]
        ELSE canvas[p]]

\* new_img.convert("RGB"): the alpha band is dropped.
ConvertRGB(canvas) == [p \in DOMAIN canvas |-> SubSeq(canvas[p], 1, 3)]

\* ------------------------------------------- GeomSpec: one image's pixels
Colours == { <<255, 255, 255>>, <<0, 0, 0>>, <<200, 30, 30>> }
Alphas == {0, 128, 255}
Dims == 1..MaxDim
NoCanvas == <<>>
NoBox == <<0, 0, 0, 0>>

BatchIdle ==
    /\ inputExists = FALSE /\ tree = {} /\ useAi = FALSE
    /\ pc = "idle" /\ pending = {} /\ cur = 0 /\ img = <<>> /\ created = FALSE
    /\ outDirs = {} /\ outFiles = <<>> /\ called = {} /\ opened = {}
    /\ okFiles = {} /\ errFiles = {} /\ errCount = 0
    /\ prevOut = <<>> /\ prevClean = FALSE /\ prevAi = FALSE

\* The state after Image.open(...).convert("RGBA") (and remove, when asked
\* for): an image of some size, here of one pixel value throughout.
GeomInit ==
    /\ BatchIdle
    /\ gpc = "thumbnail"
    /\ gTarget \in Dims \X Dims
    /\ gBg \in Colours
    /\ gSrc \in Dims \X Dims
    /\ gPix \in { Append(c, a) : c \in Colours, a \in Alphas }
    /\ gImg = gSrc
    /\ gCanvas = NoCanvas
    /\ gBox = NoBox

\* line 57: img.thumbnail(self.target_size, Image.Resampling.LANCZOS)
GThumbnail ==
    /\ gpc = "thumbnail"
    /\ gImg' \in ThumbnailSizes(gSrc, gTarget)
    /\ gpc' = "new"
    /\ UNCHANGED <<gTarget, gBg, gSrc, gPix, gCanvas, gBox>>
    /\ UNCHANGED batchVars

\* line 60: new_img = Image.new("RGBA", self.target_size, self.bg_color + (255,))
GNewCanvas ==
    /\ gpc = "new"
    /\ gCanvas' = NewCanvas(gTarget, gBg)
    /\ gpc' = "paste"
    /\ UNCHANGED <<gTarget, gBg, gSrc, gPix, gImg, gBox>>
    /\ UNCHANGED batchVars

\* lines 63-65: the offsets and new_img.paste(img, (paste_x, paste_y), img)
GPaste ==
    /\ gpc = "paste"
    /\ LET box == <<PasteOffset(gTarget[1], gImg[1]),
                    PasteOffset(gTarget[2], gImg[2]), gImg[1], gImg[2]>>
       IN  /\ gBox' = box
           /\ gCanvas' = Paste(gCanvas, gPix, box)
    /\ gpc' = "convert"
    /\ UNCHANGED <<gTarget, gBg, gSrc, gPix, gImg>>
    /\ UNCHANGED batchVars

\* line 68: final_img = new_img.convert("RGB")
GConvert ==
    /\ gpc = "convert"
    /\ gCanvas' = ConvertRGB(gCanvas)
    /\ gpc' = "final"
    /\ UNCHANGED <<gTarget, gBg, gSrc, gPix, gImg, gBox>>
    /\ UNCHANGED batchVars

GeomNext == GThumbnail \/ GNewCanvas \/ GPaste \/ GConvert

GeomSpec == GeomInit /\ [][GeomNext]_vars

\* ------------------------------------------------ claims about compositing

\* C6: every produced image has exactly the configured target_size, whatever
\* the source size, and every pixel outside the rectangle the pasted image
\* occupies has the colour bg_color.
C6_CanvasSizeAndBackground ==
    gpc = "final" =>
        /\ DOMAIN gCanvas = (0..(gTarget[1] - 1)) \X (0..(gTarget[2] - 1))
        /\ \A p \in DOMAIN gCanvas :
               (~ InBox(p, gBox)) => gCanvas[p] = gBg

\* C6's case: a finished image with background left around a pasted image
\* that shows (some pixel inside the rectangle differs from bg_color).
C6_Witness ==
    /\ gpc = "final"
    /\ \E p \in DOMAIN gCanvas : ~ InBox(p, gBox)
    /\ \E p \in DOMAIN gCanvas : InBox(p, gBox) /\ gCanvas[p] # gBg

\* C7: after the resize step the image fits the target box, is never larger
\* than the source, is unchanged when the source already fits, and, when it
\* was shrunk, keeps the aspect ratio up to the rounding of one side to a
\* whole pixel (one side is less than a pixel away from the exact value the
\* other side gives).
C7_ThumbnailWithinBounds ==
    gpc # "thumbnail" =>
        LET w == gSrc[1]  h == gSrc[2]  sw == gImg[1]  sh == gImg[2]
        IN  /\ sw <= gTarget[1] /\ sh <= gTarget[2]
            /\ sw <= w /\ sh <= h
            /\ (w <= gTarget[1] /\ h <= gTarget[2]) => (sw = w /\ sh = h)
            /\ \/ Abs(sw * h - sh * w) < h
               \/ Abs(sh * w - sw * h) < w

\* C7's case: an image larger than the box has been shrunk on both sides to
\* something larger than one pixel.
C7_Witness ==
    /\ gpc = "new"
    /\ gImg[1] < gSrc[1] /\ gImg[2] < gSrc[2]
    /\ gImg[1] > 1 /\ gImg[2] > 1
    /\ gImg[1] # gImg[2]

\* C8: the image is pasted at exactly floor((target_w - scaled_w)/2),
\* floor((target_h - scaled_h)/2); both offsets are non-negative and the
\* pasted rectangle lies inside the canvas.  The two scenarios: 2000x1000 on
\* 1024x1024 gives 1024x512 with 256 pixels above and below, 500x500 stays
\* 500x500 with 262 pixels on each side.
C8_CentredInsideCanvas ==
    /\ gpc \in {"convert", "final"} =>
        LET dx == gTarget[1] - gImg[1]
            dy == gTarget[2] - gImg[2]
        IN  /\ gBox[3] = gImg[1] /\ gBox[4] = gImg[2]
            /\ 2 * gBox[1] <= dx /\ dx <= 2 * gBox[1] + 1
            /\ 2 * gBox[2] <= dy /\ dy <= 2 * gBox[2] + 1
            /\ gBox[1] >= 0 /\ gBox[2] >= 0
            /\ gBox[1] + gBox[3] <= gTarget[1]
            /\ gBox[2] + gBox[4] <= gTarget[2]
    /\ LET t == <<DefaultTargetW, DefaultTargetH>>
           as == ThumbnailSizes(<<2000, 1000>>, t)
           bs == ThumbnailSizes(<<500, 500>>, t)
           a == <<1024, 512>>
           b == <<500, 500>>
       IN  /\ as = {a} /\ bs = {b}
           /\ PasteOffset(t[1], a[1]) = 0 /\ PasteOffset(t[2], a[2]) = 256
           /\ t[2] - a[2] - PasteOffset(t[2], a[2]) = 256
           /\ PasteOffset(t[1], b[1]) = 262 /\ PasteOffset(t[2], b[2]) = 262
           /\ t[1] - b[1] - PasteOffset(t[1], b[1]) = 262

\* C8's case: an image has been pasted with room left on both axes, the
\* room being odd on one of them, so that the floor decides the offset.
C8_Witness ==
    /\ gpc = "final"
    /\ gBox[1] > 0 /\ gBox[2] > 0
    /\ (gTarget[1] - gImg[1]) % 2 = 1

\* ============================================================ the batch run

\* ------------------------------------------------------- the input entries
\* The entries an input tree is drawn from.  dir is the directory relative to
\* the input root, name the entry's name, kind "file" or "dir"; a file is
\* decodable or not and, when it is, holds an image of some size.
Candidates == 1..8

EntryTable ==
  [e \in Candidates |->
    CASE e = 1 -> [dir |-> <<"a">>, name |-> <<"c","a","t",".","j","p","g">>,
                   kind |-> "file", decodable |-> TRUE, size |-> <<2000, 1000>>]
      [] e = 2 -> [dir |-> <<"a">>, name |-> <<"c","a","t",".","p","n","g">>,
                   kind |-> "file", decodable |-> TRUE, size |-> <<500, 500>>]
      [] e = 3 -> [dir |-> <<"b">>, name |-> <<"d","o","g",".","P","N","G">>,
                   kind |-> "file", decodable |-> TRUE, size |-> <<500, 500>>]
      [] e = 4 -> [dir |-> <<"c">>, name |-> <<"b","r","o","k","e","n",".","p","n","g">>,
                   kind |-> "file", decodable |-> FALSE, size |-> <<0, 0>>]
      [] e = 5 -> [dir |-> <<>>, name |-> <<"n","o","t","e","s",".","t","x","t">>,
                   kind |-> "file", decodable |-> FALSE, size |-> <<0, 0>>]
      [] e = 6 -> [dir |-> <<>>, name |-> <<"p","i","c","s",".","p","n","g">>,
                   kind |-> "dir", decodable |-> FALSE, size |-> <<0, 0>>]
      [] e = 7 -> [dir |-> <<"b">>, name |-> <<".","p","n","g">>,
                   kind |-> "file", decodable |-> TRUE, size |-> <<300, 700>>]
      [] e = 8 -> [dir |-> <<"b", "s">>, name |-> <<"o","w","l",".","J","p","g">>,
                   kind |-> "file", decodable |-> TRUE, size |-> <<3000, 4000>>] ]

Entry(e) == EntryTable[e]

\* self.target_size, as __init__ sets it by default
target_size == <<DefaultTargetW, DefaultTargetH>>

\* ------------------------------------------------------------ the filter
\* The entries a filter that compares the suffix as it is spelled selects.
SelectedCaseSensitive ==
    { e \in Candidates :
        Entry(e).kind = "file" /\ Suffix(Entry(e).name) \in valid_extensions }

IsSelectedCaseSensitive(e) == e \in SelectedCaseSensitive

\* line 33: the entries for which
\* img_path.is_file() and img_path.suffix.lower() in self.valid_extensions
Selected ==
    { e \in Candidates :
        Entry(e).kind = "file" /\ Lower(Suffix(Entry(e).name)) \in valid_extensions }

\* line 33: the test on one entry
IsSelected(e) == e \in Selected

\* ------------------------------------------------------------- the paths
\* lines 42-44: relative_to(base_input_path), re-rooted under the output
\* root, with_suffix('.png').  A path under the output root is its directory
\* and its name.
DestTable ==
    [e \in Candidates |->
        [dir |-> Entry(e).dir, name |-> WithSuffix(Entry(e).name, PngSuffix)]]

Dest(e) == DestTable[e]

DestPaths == { Dest(e) : e \in Candidates }

\* out_path.parent and its ancestors down from the output root: what
\* mkdir(parents=True) makes sure exists.
Ancestors(dir) == { SubSeq(dir, 1, k) : k \in 0..Len(dir) }

\* ------------------------------------------------------------- the files
NoFile == [state |-> "none"]
\* A file opened for writing and not written to its end.
PartialFile == [state |-> "partial"]
NoImage == <<>>

\* ----------------------------------------------------------------- Init
GeomIdle ==
    /\ gpc = "off" /\ gTarget = <<1, 1>> /\ gBg = <<0, 0, 0>> /\ gSrc = <<1, 1>>
    /\ gPix = <<0, 0, 0, 0>> /\ gImg = <<1, 1>> /\ gCanvas = NoCanvas /\ gBox = NoBox

\* A processor has been constructed; the input root exists or not and, when
\* it does, holds some entries; the output root is empty.
Init ==
    /\ inputExists \in BOOLEAN
    /\ tree \in { t \in SUBSET Candidates :
                    /\ Cardinality(t) <= MaxEntries
                    /\ (~ inputExists) => t = {} }
    /\ useAi = FALSE
    /\ pc = "idle"
    /\ pending = {}
    /\ cur = 0
    /\ img = NoImage
    /\ created = FALSE
    /\ outDirs = {}
    /\ outFiles = [p \in DestPaths |-> NoFile]
    /\ called = {} /\ opened = {} /\ okFiles = {} /\ errFiles = {}
    /\ errCount = 0
    /\ prevOut = [p \in DestPaths |-> NoFile]
    /\ prevClean = FALSE
    /\ prevAi = FALSE
    /\ GeomIdle

\* -------------------------------------------------------- process_directory
\* A process_directory that walks the tree without testing that the input
\* root exists (rglob on a missing directory yields nothing).
ProcessDirectoryUnchecked(ai) ==
    /\ pc \in {"idle", "done"}
    /\ useAi' = ai
    /\ prevOut' = outFiles
    /\ prevClean' = (pc = "done" /\ errCount = 0)
    /\ prevAi' = useAi
    /\ called' = {} /\ opened' = {} /\ okFiles' = {} /\ errFiles' = {}
    /\ errCount' = 0
    /\ pending' = tree
    /\ pc' = "loop"
    /\ UNCHANGED <<inputExists, tree, cur, img, created, outDirs, outFiles>>
    /\ UNCHANGED geomVars

\* lines 20-29: a call of process_directory up to the loop.  A missing input
\* root is logged as one error and the call returns.
ProcessDirectory(ai) ==
    /\ pc \in {"idle", "done"}
    /\ useAi' = ai
    /\ prevOut' = outFiles
    /\ prevClean' = (pc = "done" /\ errCount = 0)
    /\ prevAi' = useAi
    /\ called' = {} /\ opened' = {} /\ okFiles' = {} /\ errFiles' = {}
    /\ IF ~ inputExists
       THEN /\ errCount' = 1
            /\ pending' = {}
            /\ pc' = "done"
       ELSE /\ errCount' = 0
            /\ pending' = tree
            /\ pc' = "loop"
    /\ UNCHANGED <<inputExists, tree, cur, img, created, outDirs, outFiles>>
    /\ UNCHANGED geomVars

\* lines 32-34: rglob yields the next entry, in an order the file system
\* decides; the entry is passed to _process_single_image when the filter
\* selects it.
Visit(e) ==
    /\ pc = "loop"
    /\ e \in pending
    /\ pending' = pending \ {e}
    /\ IF IsSelected(e)
       THEN /\ called' = called \cup {e}
            /\ cur' = e
            /\ pc' = "mkdir"
       ELSE UNCHANGED <<called, cur, pc>>
    /\ UNCHANGED <<inputExists, tree, useAi, img, created, outDirs, outFiles,
                   opened, okFiles, errFiles, errCount, prevOut, prevClean, prevAi>>
    /\ UNCHANGED geomVars

\* line 32: rglob is exhausted and process_directory returns.
Return ==
    /\ pc = "loop"
    /\ pending = {}
    /\ pc' = "done"
    /\ UNCHANGED <<inputExists, tree, useAi, pending, cur, img, created,
                   outDirs, outFiles, called, opened, okFiles, errFiles, errCount,
                   prevOut, prevClean, prevAi>>
    /\ UNCHANGED geomVars

\* ---------------------------------------------------- _process_single_image
\* line 47: out_path.parent.mkdir(parents=True, exist_ok=True) succeeds:
\* the parent and every missing ancestor exist afterwards.
MkdirOk ==
    /\ pc = "mkdir"
    /\ outDirs' = outDirs \cup Ancestors(Entry(cur).dir)
    /\ pc' = "open"
    /\ UNCHANGED <<inputExists, tree, useAi, pending, cur, img, created,
                   outFiles, called, opened, okFiles, errFiles, errCount,
                   prevOut, prevClean, prevAi>>
    /\ UNCHANGED geomVars

\* line 47: mkdir raises (permissions, a full disk) while creating the
\* missing directory at depth j; the ancestors above it have been made.  An
\* existing parent is tolerated (exist_ok=True) and raises nothing.
MkdirFail ==
    /\ pc = "mkdir"
    /\ \E j \in 0..Len(Entry(cur).dir) :
          /\ SubSeq(Entry(cur).dir, 1, j) \notin outDirs
          /\ outDirs' = outDirs \cup { SubSeq(Entry(cur).dir, 1, k) : k \in 0..(j - 1) }
    /\ pc' = "except"
    /\ UNCHANGED <<inputExists, tree, useAi, pending, cur, img, created,
                   outFiles, called, opened, okFiles, errFiles, errCount,
                   prevOut, prevClean, prevAi>>
    /\ UNCHANGED geomVars

\* lines 49-50: Image.open(img_path) and convert("RGBA").  A file that does
\* not hold an image raises; otherwise img is the decoded image.
Open ==
    /\ pc = "open"
    /\ opened' = opened \cup {cur}
    /\ IF Entry(cur).decodable
       THEN /\ img' = [size |-> Entry(cur).size, src |-> cur, ai |-> FALSE]
            /\ pc' = IF useAi THEN "remove" ELSE "compose"
       ELSE /\ img' = NoImage
            /\ pc' = "except"
    /\ UNCHANGED <<inputExists, tree, useAi, pending, cur, created, outDirs,
                   outFiles, called, okFiles, errFiles, errCount,
                   prevOut, prevClean, prevAi>>
    /\ UNCHANGED geomVars

\* line 54: img = remove(img), the subject extraction, returns an image of
\* the same size with the background made transparent.
RemoveOk ==
    /\ pc = "remove"
    /\ img' = [img EXCEPT !.ai = TRUE]
    /\ pc' = "compose"
    /\ UNCHANGED <<inputExists, tree, useAi, pending, cur, created, outDirs,
                   outFiles, called, opened, okFiles, errFiles, errCount,
                   prevOut, prevClean, prevAi>>
    /\ UNCHANGED geomVars

\* line 54: remove(img) raises.
RemoveFail ==
    /\ pc = "remove"
    /\ pc' = "except"
    /\ UNCHANGED <<inputExists, tree, useAi, pending, cur, img, created,
                   outDirs, outFiles, called, opened, okFiles, errFiles, errCount,
                   prevOut, prevClean, prevAi>>
    /\ UNCHANGED geomVars

\* lines 57-68: thumbnail, the new canvas, the centred paste and the
\* conversion to RGB, all in memory.  The finished image is kept by its
\* size, the rectangle the source occupies in it and the source it shows.
Compose ==
    /\ pc = "compose"
    /\ \E s \in ThumbnailSizes(img.size, target_size) :
          img' = [state |-> "complete",
                  size  |-> target_size,
                  box   |-> <<PasteOffset(target_size[1], s[1]),
                              PasteOffset(target_size[2], s[2]), s[1], s[2]>>,
                  src   |-> img.src,
                  ai    |-> img.ai]
    /\ pc' = "save"
    /\ UNCHANGED <<inputExists, tree, useAi, pending, cur, created, outDirs,
                   outFiles, called, opened, okFiles, errFiles, errCount,
                   prevOut, prevClean, prevAi>>
    /\ UNCHANGED geomVars

\* line 69: final_img.save(out_path, format="PNG") opens out_path for
\* writing.  The open creates the file or empties the one that is there.
SaveOpenOk ==
    /\ pc = "save"
    /\ created' = (outFiles[Dest(cur)] = NoFile)
    /\ outFiles' = [outFiles EXCEPT ![Dest(cur)] = PartialFile]
    /\ pc' = "write"
    /\ UNCHANGED <<inputExists, tree, useAi, pending, cur, img, outDirs,
                   called, opened, okFiles, errFiles, errCount,
                   prevOut, prevClean, prevAi>>
    /\ UNCHANGED geomVars

\* line 69: the open raises (the destination cannot be written): nothing at
\* out_path is touched.
SaveOpenFail ==
    /\ pc = "save"
    /\ pc' = "except"
    /\ UNCHANGED <<inputExists, tree, useAi, pending, cur, img, created,
                   outDirs, outFiles, called, opened, okFiles, errFiles, errCount,
                   prevOut, prevClean, prevAi>>
    /\ UNCHANGED geomVars

\* line 69: the encoder writes the whole image and save returns.
SaveWriteOk ==
    /\ pc = "write"
    /\ outFiles' = [outFiles EXCEPT ![Dest(cur)] = img]
    /\ pc' = "log"
    /\ UNCHANGED <<inputExists, tree, useAi, pending, cur, img, created,
                   outDirs, called, opened, okFiles, errFiles, errCount,
                   prevOut, prevClean, prevAi>>
    /\ UNCHANGED geomVars

\* line 69: writing raises part-way (a full disk, an I/O error).  save
\* removes the file if its open created it; a file that was there before
\* stays as the open and the partial write left it.
SaveWriteFail ==
    /\ pc = "write"
    /\ outFiles' = [outFiles EXCEPT ![Dest(cur)] =
                        IF created THEN NoFile ELSE PartialFile]
    /\ pc' = "except"
    /\ UNCHANGED <<inputExists, tree, useAi, pending, cur, img, created,
                   outDirs, called, opened, okFiles, errFiles, errCount,
                   prevOut, prevClean, prevAi>>
    /\ UNCHANGED geomVars

\* line 71: logging.info("처리 완료"), and _process_single_image returns.
LogSuccess ==
    /\ pc = "log"
    /\ okFiles' = okFiles \cup {cur}
    /\ cur' = 0
    /\ img' = NoImage
    /\ pc' = "loop"
    /\ UNCHANGED <<inputExists, tree, useAi, pending, created, outDirs,
                   outFiles, called, opened, errFiles, errCount,
                   prevOut, prevClean, prevAi>>
    /\ UNCHANGED geomVars

\* A handler that logs the error and lets it go on to the caller.
ExceptReraise ==
    /\ pc = "except"
    /\ errFiles' = errFiles \cup {cur}
    /\ errCount' = errCount + 1
    /\ cur' = 0
    /\ img' = NoImage
    /\ pc' = "raised"
    /\ UNCHANGED <<inputExists, tree, useAi, pending, created, outDirs,
                   outFiles, called, opened, okFiles, prevOut, prevClean, prevAi>>
    /\ UNCHANGED geomVars

\* lines 73-74: except Exception logs the error with the file's name, and
\* _process_single_image returns to the loop.
Except ==
    /\ pc = "except"
    /\ errFiles' = errFiles \cup {cur}
    /\ errCount' = errCount + 1
    /\ cur' = 0
    /\ img' = NoImage
    /\ pc' = "loop"
    /\ UNCHANGED <<inputExists, tree, useAi, pending, created, outDirs,
                   outFiles, called, opened, okFiles, prevOut, prevClean, prevAi>>
    /\ UNCHANGED geomVars

Next ==
    \/ \E ai \in BOOLEAN : ProcessDirectory(ai)
    \/ \E e \in Candidates : Visit(e)
    \/ Return
    \/ MkdirOk
    \/ MkdirFail
    \/ Open
    \/ RemoveOk
    \/ RemoveFail
    \/ Compose
    \/ SaveOpenOk
    \/ SaveOpenFail
    \/ SaveWriteOk
    \/ SaveWriteFail
    \/ LogSuccess
    \/ Except

Spec == Init /\ [][Next]_vars

\* ------------------------------------------------ claims about the batch run

\* An entry the specification calls recognized: a regular file whose
\* extension, lowercased, is one of .png, .jpg, .jpeg, .webp.
RecognizedEntries ==
    { e \in Candidates :
        /\ Entry(e).kind = "file"
        /\ Lower(Suffix(Entry(e).name)) \in
               { <<".","p","n","g">>, <<".","j","p","g">>,
                 <<".","j","p","e","g">>, <<".","w","e","b","p">> } }

Recognized(e) == e \in RecognizedEntries

\* The output root held no file when the current call started.
OutputWasEmpty == \A p \in DestPaths : prevOut[p] = NoFile

\* The current call has returned from an existing input root.
Returned == pc = "done" /\ inputExists

\* C1: a failure of the per-file transform never aborts the batch: the error
\* never reaches the loop or the caller, no recognized file that is still to
\* come is dropped, and when process_directory returns every recognized file
\* has been passed to the transform and has ended in a success or an error.
C1_FailureIsolated ==
    /\ pc # "raised"
    /\ pc = "loop" => \A e \in tree : Recognized(e) => e \in called \cup pending
    /\ Returned =>
          /\ \A e \in tree : Recognized(e) => e \in called
          /\ called = okFiles \cup errFiles

\* C1's case: a file has been transformed and saved after another file of
\* the same call had failed.
C1_Witness ==
    /\ pc = "log"
    /\ errFiles # {}
    /\ outFiles[Dest(cur)].state = "complete"

\* C2: after _process_single_image has returned, every destination holds a
\* complete image of the target size or no file at all; no truncated or
\* partly written file is left, whichever step failed.
C2_AllOrNothing ==
    pc \in {"loop", "done"} =>
        \A p \in DestPaths :
            \/ outFiles[p] = NoFile
            \/ outFiles[p].state = "complete" /\ outFiles[p].size = target_size

\* C3 (for a call that started on an empty output root): when
\* process_directory returns, for every recognized file exactly one holds:
\* the output tree has a file at its mirrored .png path, or an error was
\* logged for it; and a partial output never goes without a logged error
\* for the file.
C3_OutputXorError ==
    (Returned /\ OutputWasEmpty) =>
        \A e \in tree : Recognized(e) =>
            /\ (outFiles[Dest(e)] # NoFile) # (e \in errFiles)
            /\ outFiles[Dest(e)] = PartialFile => e \in errFiles

\* C4: an entry that is not a regular file, or whose lowercased extension is
\* not a valid one, is never passed to the transform and never opened, and
\* no output file or directory exists on its behalf; files spelled .PNG or
\* .Jpg are selected.
C4_OnlyRecognizedProcessed ==
    /\ \A e \in called \cup opened : e \in tree /\ Recognized(e)
    /\ (called \cup opened) \cap {5, 6, 7} = {}
    /\ \A p \in DestPaths :
          outFiles[p] # NoFile => \E e \in tree : Recognized(e) /\ Dest(e) = p
    /\ \A d \in outDirs :
          \E e \in tree : Recognized(e) /\ d \in Ancestors(Entry(e).dir)
    /\ Returned => \A e \in tree \cap {3, 8} : e \in called

\* C4's case: a call has returned that selected a file spelled .PNG or .Jpg
\* and passed over an entry that is not a recognized file.
C4_Witness ==
    /\ Returned
    /\ called \cap {3, 8} # {}
    /\ tree \cap {5, 6, 7} # {}

\* C5: on a missing input root process_directory logs exactly one error and
\* returns normally: the transform is never called, no directory and no file
\* is made under the output root, nothing is raised.
C5_MissingInputRoot ==
    (~ inputExists) =>
        /\ pc \in {"idle", "done"}
        /\ called = {} /\ opened = {}
        /\ outDirs = {}
        /\ \A p \in DestPaths : outFiles[p] = NoFile
        /\ pc = "done" => errCount = 1

\* C5's case: a call on a missing input root has returned.
C5_Witness == (~ inputExists) /\ pc = "done"

\* C9 (for a call that started on an empty output root): each file's result
\* depends on that file alone: when process_directory returns, a file whose
\* own transform succeeded has at its destination the image made from it,
\* and a file whose own transform failed has nothing there, whichever other
\* files are in the tree and in whatever order they came.
C9_TasksIndependent ==
    (Returned /\ OutputWasEmpty) =>
        \A e \in tree : Recognized(e) =>
            IF e \in okFiles
            THEN /\ outFiles[Dest(e)].state = "complete"
                 /\ outFiles[Dest(e)].src = e
            ELSE outFiles[Dest(e)] = NoFile

\* C10: a second call without background removal, after a first one without
\* it, both ending without an error, leaves the output tree as the first
\* call left it.
C10_Idempotent ==
    (Returned /\ prevClean /\ errCount = 0 /\ ~ useAi /\ ~ prevAi) =>
        outFiles = prevOut

====
